---- MODULE Spec2Model ----
(***************************************************************************)
(* SearchAI: the ACP agent router (src/main.py) and the ACP-only client    *)
(* (src/client.py).                                                        *)
(*                                                                         *)
(* Python strings are modelled as sequences of one-character strings, so   *)
(* that lower(), strip(), split(), `in` and startswith() are computed the  *)
(* way the interpreter computes them.  Python values that are not always   *)
(* strings (tool results, exception messages, JSON values) are records     *)
(* [t, s, n, l]: t is the type tag, s the characters of a str, n the value *)
(* of an int, l the items of a list.                                       *)
(***************************************************************************)
EXTENDS Integers, Sequences, FiniteSets, TLC

VARIABLES
    input,      \* main.py agent(): the `input` argument, [none, msgs]
    text,       \* main.py agent(): the local `text`
    pc,         \* main.py agent(): position of the generator
    output,     \* main.py agent(): the chunks yielded so far
    calls,      \* tool / reasoning-engine invocations issued during the run
    acpError,   \* client.py: what the name ACPError is bound to
    cargs,      \* client.py run_with_fallback(): [agent_name, text]
    cpc,        \* client.py run_with_fallback(): position
    requests,   \* client.py run_with_fallback(): requests sent so far
    primary,    \* client.py run_with_fallback(): how run_sync ended
    body,       \* client.py run_with_fallback(): JSON body of the raw POST
    result,     \* client.py run_with_fallback(): the returned value
    seq,        \* client.py _normalize_output(): the `seq` argument
    nout,       \* client.py _normalize_output(): its local `out`
    npc,        \* client.py _normalize_output(): position
    cmd,        \* client.py ask_anything() / call_named(): the arguments
    disc,       \* client.py discover_agents(): the answer of GET /agents
    names,      \* client.py: the list returned by discover_agents()
    picked,     \* client.py ask_anything(): its local `name`
    kpc,        \* client.py ask_anything() / call_named(): position
    printed,    \* client.py: the lines printed so far
    bpc,        \* main.py call_mcp_tool(): position
    bcall,      \* main.py call_mcp_tool(): the call in progress
    blog,       \* main.py call_mcp_tool(): the calls that have ended
    executors,  \* the ThreadPoolExecutors not yet shut down
    loops,      \* the event loops of asyncio.run() not yet closed
    conns,      \* the fastmcp Client connections not yet closed
    made,       \* how many executors, loops and connections were created
    invocations \* the call_tool requests that reached the tool endpoint

vars == <<input, text, pc, output, calls,
          acpError, cargs, cpc, requests, primary, body, result,
          seq, nout, npc,
          cmd, disc, names, picked, kpc, printed,
          bpc, bcall, blog, executors, loops, conns, made, invocations>>

agentVars == <<input, text, pc, output, calls>>
clientVars == <<acpError, cargs, cpc, requests, primary, body, result>>
normVars == <<seq, nout, npc>>
cmdVars == <<cmd, disc, names, picked, kpc, printed>>
bridgeVars == <<bpc, bcall, blog, executors, loops, conns, made, invocations>>

-----------------------------------------------------------------------------
(* Bounds of the model.                                                    *)

\* largest number of message parts in one input
MaxParts == 2

-----------------------------------------------------------------------------
(* Characters and Python's str methods.                                    *)

UpperChars == <<"A","B","C","D","E","F","G","H","I","J","K","L","M",
                "N","O","P","Q","R","S","T","U","V","W","X","Y","Z">>
LowerChars == <<"a","b","c","d","e","f","g","h","i","j","k","l","m",
                "n","o","p","q","r","s","t","u","v","w","x","y","z">>
DigitChars == <<"0","1","2","3","4","5","6","7","8","9">>

Range(s) == {s[i] : i \in DOMAIN s}

IsUpperCh(c) == c \in Range(UpperChars)
IsLowerCh(c) == c \in Range(LowerChars)
IsAlphaCh(c) == IsUpperCh(c) \/ IsLowerCh(c)
\* str.isspace() on the characters of the model's alphabet
IsSpace(c) == c \in {" ", "\t"}

ToLowerCh(c) ==
    IF IsUpperCh(c)
    THEN LowerChars[CHOOSE i \in DOMAIN UpperChars : UpperChars[i] = c]
    ELSE c

\* str.lower()
lower(s) == [i \in 1..Len(s) |-> ToLowerCh(s[i])]

\* str.isalpha(): non-empty and every character alphabetic
isalpha(s) == Len(s) > 0 /\ \A i \in 1..Len(s) : IsAlphaCh(s[i])

\* str.isupper(): at least one cased character and no lowercase one
isupper(s) ==
    /\ \E i \in 1..Len(s) : IsUpperCh(s[i])
    /\ \A i \in 1..Len(s) : ~IsLowerCh(s[i])

\* str.lstrip() / str.rstrip() / str.strip() with no argument
RECURSIVE lstrip(_)
lstrip(s) ==
    IF s = <<>> THEN <<>>
    ELSE IF IsSpace(Head(s)) THEN lstrip(Tail(s)) ELSE s

RECURSIVE rstrip(_)
rstrip(s) ==
    IF s = <<>> THEN <<>>
    ELSE IF IsSpace(s[Len(s)]) THEN rstrip(SubSeq(s, 1, Len(s) - 1)) ELSE s

strip(s) == rstrip(lstrip(s))

\* str.find(sub), 1-based; 0 when sub does not occur
find(s, sub) ==
    LET hits == {i \in 1..(Len(s) - Len(sub) + 1) :
                    SubSeq(s, i, i + Len(sub) - 1) = sub}
    IN  IF hits = {} THEN 0 ELSE CHOOSE i \in hits : \A j \in hits : i <= j

\* sub in s
contains(s, sub) == find(s, sub) # 0

\* s.startswith(prefix)
startswith(s, prefix) ==
    Len(s) >= Len(prefix) /\ SubSeq(s, 1, Len(prefix)) = prefix

\* s.replace(",", " ")
replace_comma(s) == [i \in 1..Len(s) |-> IF s[i] = "," THEN " " ELSE s[i]]

\* the first whitespace-delimited word of s, s having no leading whitespace
RECURSIVE FirstWord(_)
FirstWord(s) ==
    IF s = <<>> \/ IsSpace(Head(s)) THEN <<>>
    ELSE <<Head(s)>> \o FirstWord(Tail(s))

\* s.split(): split on runs of whitespace, no empty strings
RECURSIVE split(_)
split(s) ==
    LET t == lstrip(s)
        w == FirstWord(t)
    IN  IF t = <<>> THEN <<>>
        ELSE <<w>> \o split(SubSeq(t, Len(w) + 1, Len(t)))

\* s.split(maxsplit=1): the first word, then the rest without its leading
\* whitespace (trailing whitespace is kept), when there is a rest
split_maxsplit1(s) ==
    LET t == lstrip(s)
        w == FirstWord(t)
        r == lstrip(SubSeq(t, Len(w) + 1, Len(t)))
    IN  IF t = <<>> THEN <<>>
        ELSE IF r = <<>> THEN <<w>>
        ELSE <<w, r>>

\* s.split(sep, 1): cut at the first occurrence of sep, [s] when there is none
split_sep1(s, sep) ==
    LET i == find(s, sep)
    IN  IF i = 0 THEN <<s>>
        ELSE <<SubSeq(s, 1, i - 1), SubSeq(s, i + Len(sep), Len(s))>>

\* " ".join(list)
RECURSIVE join_space(_)
join_space(list) ==
    IF list = <<>> THEN <<>>
    ELSE IF Len(list) = 1 THEN list[1]
    ELSE list[1] \o <<" ">> \o join_space(Tail(list))

-----------------------------------------------------------------------------
(* Python values.                                                          *)

StrV(s)  == [t |-> "str",  s |-> s,    n |-> 0, l |-> <<>>]
NoneV    == [t |-> "None", s |-> <<>>, n |-> 0, l |-> <<>>]
IntV(n)  == [t |-> "int",  s |-> <<>>, n |-> n, l |-> <<>>]
ListV(l) == [t |-> "list", s |-> <<>>, n |-> 0, l |-> l]

\* decimal digits of a natural number
RECURSIVE Digits(_)
Digits(n) ==
    IF n < 10 THEN <<DigitChars[n + 1]>>
    ELSE Digits(n \div 10) \o <<DigitChars[(n % 10) + 1]>>

\* a dict of at most one entry: s is the key, l holds its value
DictV(key, val) == [t |-> "dict", s |-> key, n |-> 0, l |-> <<val>>]
EmptyDictV == [t |-> "dict", s |-> <<>>, n |-> 0, l |-> <<>>]

\* an object (a pydantic model) of at most one field: s is the attribute
\* name, l holds its value
ObjV(attr, val) == [t |-> "obj", s |-> attr, n |-> 0, l |-> <<val>>]
EmptyObjV == [t |-> "obj", s |-> <<>>, n |-> 0, l |-> <<>>]

\* `key in v` for a dict, hasattr(v, key) for an object
Has(v, key) == v.l # <<>> /\ v.s = key

\* repr(v) for a str, None or a non-negative int
repr(v) ==
    CASE v.t = "str"  -> <<"'">> \o v.s \o <<"'">>
      [] v.t = "None" -> <<"N","o","n","e">>
      [] v.t = "int"  -> Digits(v.n)

\* str(v) for a str, None, a non-negative int, a dict or a pydantic model
str(v) ==
    CASE v.t = "str"  -> v.s
      [] v.t = "None" -> <<"N","o","n","e">>
      [] v.t = "int"  -> Digits(v.n)
      [] v.t = "dict" ->
            IF v.l = <<>> THEN <<"{", "}">>
            ELSE <<"{">> \o repr(StrV(v.s)) \o <<":", " ">>
                      \o repr(v.l[1]) \o <<"}">>
      [] v.t = "obj"  ->
            IF v.l = <<>> THEN <<>>
            ELSE v.s \o <<"=">> \o repr(v.l[1])

\* bool(v): Python truthiness
Truthy(v) ==
    CASE v.t = "str"  -> v.s # <<>>
      [] v.t = "None" -> FALSE
      [] v.t = "int"  -> v.n # 0
      [] v.t = "list" -> v.l # <<>>

-----------------------------------------------------------------------------
(* String literals of src/main.py.                                         *)

EMPTY_INPUT == <<"(","e","m","p","t","y"," ","i","n","p","u","t",")">>
FINANCE_ERROR == <<"[","a","g","e","n","t","]"," ","M","C","P"," ",
                   "f","i","n","a","n","c","e"," ","e","r","r","o","r",":"," ">>
HELLO_ERROR == <<"[","a","g","e","n","t","]"," ","M","C","P"," ",
                 "h","e","l","l","o"," ","e","r","r","o","r",":"," ">>
CRAWL_ERROR == <<"[","a","g","e","n","t","]"," ","M","C","P"," ",
                 "c","r","a","w","l"," ","e","r","r","o","r",":"," ">>
AGENT_RECEIVED == <<"a","g","e","n","t"," ","r","e","c","e","i","v","e","d",":"," ">>
THERE == <<"t","h","e","r","e">>
NVIDIA == <<"n","v","i","d","i","a">>
NVDA == <<"N","V","D","A">>
HELLO == <<"h","e","l","l","o">>
CRAWL == <<"c","r","a","w","l",":">>

STOP == { <<"C","E","O">>, <<"C","F","O">>, <<"C","T","O">>, <<"U","S","D">>,
          <<"A">>, <<"A","N">>, <<"T","H","E">>, <<"I","S">>, <<"O","F">>,
          <<"F","O","R">> }

-----------------------------------------------------------------------------
(* The inputs of a run: message lists built from a few part contents.      *)

PartTexts ==
    { <<>>,
      <<" ">>,
      <<"h","e","l","l","o">>,
      <<"H","e","l","l","o"," ","\t","B","o","b">>,
      <<"A","A","P","L">>,
      <<"G","O","O","G","L","E">>,
      <<"T","O","O","L","O","N","G">>,
      <<"C","E","O">>,
      <<"A"," ","F">>,
      <<"t","h","e",",","I","B","M">>,
      <<"N","V","i","d","i","a">>,
      <<"c","r","a","w","l",":">>,
      <<"C","r","a","w","l",":"," ","x">>,
      <<"c","r","a","w","l",":"," ","N","Y","C"," ">> }

\* a part: its class and its content
Parts ==
    {[cls |-> "MessagePart", content |-> StrV(s)] : s \in PartTexts}
    \cup {[cls |-> "MessagePart", content |-> IntV(7)]}
    \cup {[cls |-> "other", content |-> StrV(<<"A","A","P","L">>)]}

PartSeqs == UNION {[1..n -> Parts] : n \in 0..MaxParts}

\* the `input` argument: None, no message, or two messages sharing the parts
Inputs ==
    {[none |-> TRUE, msgs |-> <<>>], [none |-> FALSE, msgs |-> <<>>]}
    \cup UNION {{[none |-> FALSE,
                  msgs |-> <<[parts |-> SubSeq(ps, 1, k)],
                             [parts |-> SubSeq(ps, k + 1, Len(ps))]>>] :
                    k \in 0..Len(ps)} : ps \in PartSeqs}

-----------------------------------------------------------------------------
(* src/main.py: helpers.                                                   *)

\* `input_msgs or []`
MsgsOrEmpty(inp) == IF inp.none THEN <<>> ELSE inp.msgs

\* the strings appended to `out` for the parts of one message
RECURSIVE PartStrings(_)
PartStrings(parts) ==
    IF parts = <<>> THEN <<>>
    ELSE (IF Head(parts).cls = "MessagePart" /\ Head(parts).content.t = "str"
          THEN <<Head(parts).content.s>> ELSE <<>>)
         \o PartStrings(Tail(parts))

RECURSIVE OutStrings(_)
OutStrings(msgs) ==
    IF msgs = <<>> THEN <<>>
    ELSE PartStrings(Head(msgs).parts) \o OutStrings(Tail(msgs))

\* (mutant) the join without the trailing .strip()
extract_text_nostrip(inp) == join_space(OutStrings(MsgsOrEmpty(inp)))

\* " ".join(out).strip()
extract_text(inp) == strip(join_space(OutStrings(MsgsOrEmpty(inp))))

\* (mutant) the vendor name looked up in the text as typed
HasNvidia_cased(t) == contains(t, NVIDIA)

\* "nvidia" in text.lower()
HasNvidia(t) == contains(lower(t), NVIDIA)

\* (mutant) the token condition without the stop-set
TickerTok_nostop(tok) ==
    /\ isalpha(tok)
    /\ isupper(tok)
    /\ 1 <= Len(tok) /\ Len(tok) <= 6

\* the condition of the token loop
TickerTok(tok) ==
    /\ isalpha(tok)
    /\ isupper(tok)
    /\ 1 <= Len(tok) /\ Len(tok) <= 6
    /\ tok \notin STOP

maybe_upper_ticker(t) ==
    LET toks == split(replace_comma(t))
        hits == {i \in 1..Len(toks) : TickerTok(toks[i])}
    IN  IF HasNvidia(t) THEN StrV(NVDA)
        ELSE IF hits = {} THEN NoneV
        ELSE StrV(toks[CHOOSE i \in hits : \A j \in hits : i <= j])

-----------------------------------------------------------------------------
(* src/main.py: the tool bridge and the tool functions.                    *)

\* what a tool returns (result.data, or str(result)) and what a failed call
\* raises (the exception's message)
ToolResults == {StrV(<<"4","2",".","5">>), IntV(7)}
ToolErrors == {StrV(<<"t","i","m","e","o","u","t">>)}

\* src/fastmcp_server/server.py: the parameters each tool declares
ToolParams(tool_name) ==
    CASE tool_name = "web_crawl_tool" -> {"query"}
      [] tool_name = "yahoo_finance_tool" -> {"ticker"}
      [] tool_name = "embedder_tool" -> {"text"}
      [] tool_name = "similarity_search_tool" -> {"query"}
      [] tool_name = "hello_tool" -> {"query"}

\* the message of the error the endpoint answers when the arguments of a
\* call are not the parameters the tool declares
INVALID_ARGS == <<"i","n","v","a","l","i","d">>

\* call_mcp_tool(tool_name, payload): the value returned or the exception.
\* The tool runs only when the payload's keys are its declared parameters;
\* otherwise the endpoint answers an error, which call_tool raises.
call_mcp_tool(tool_name, payload) ==
    (IF {payload.key} = ToolParams(tool_name)
     THEN {[ok |-> TRUE, val |-> r] : r \in ToolResults}
     ELSE {[ok |-> FALSE, val |-> StrV(INVALID_ARGS)]})
    \cup {[ok |-> FALSE, val |-> e] : e \in ToolErrors}

web_crawl_tool_func(query) ==
    [tool |-> "web_crawl_tool", key |-> "query", arg |-> query]
yahoo_finance_tool_func(ticker) ==
    [tool |-> "yahoo_finance_tool", key |-> "ticker", arg |-> ticker]
hello_tool_func(name) ==
    [tool |-> "hello_tool", key |-> "name", arg |-> name]

\* one entry of the call log
Call(by, req, o) ==
    [by |-> by, tool |-> req.tool, key |-> req.key, arg |-> req.arg,
     ok |-> o.ok, val |-> o.val]

-----------------------------------------------------------------------------
(* src/main.py: the reasoning engine (lc_agent), an external collaborator. *)

\* what lc_agent.run(text) returns, or that it raises
EngineOutcomes ==
    {[ok |-> TRUE, val |-> StrV(<<"h","i"," ","t","h","e","r","e">>)],
     [ok |-> FALSE, val |-> StrV(<<"t","i","m","e","o","u","t">>)]}

\* the tool calls the engine itself decides to make while it runs: none, or
\* one of the registered tool functions
EngineToolUses ==
    {<<>>,
     <<Call("engine", yahoo_finance_tool_func(<<"A","A","P","L">>),
            [ok |-> TRUE, val |-> IntV(7)])>>}

-----------------------------------------------------------------------------
(* src/main.py: agent(), one action per stage of the generator.            *)

\* (mutant) the `return` after the yield of a result left out
AfterCall_noreturn(ok, nextStage) == nextStage

\* where the generator goes after a tool call: `yield str(res); return` in
\* the try block, fall through to the next stage from the except block
AfterCall(ok, nextStage) == IF ok THEN "done" ELSE nextStage

\* (mutant) the diagnostic chunk without the prefix of its stage
Chunk_noprefix(o, prefix) == str(o.val)

\* the chunk yielded after a tool call
Chunk(o, prefix) == IF o.ok THEN str(o.val) ELSE prefix \o str(o.val)

\* (mutant) the second word instead of the rest of the text
HelloName_word(t) ==
    IF Len(split(t)) > 1 THEN split(t)[2] ELSE THERE

\* name = text.split(maxsplit=1)[1] if len(text.split()) > 1 else "there"
HelloName(t) ==
    IF Len(split(t)) > 1 THEN split_maxsplit1(t)[2] ELSE THERE

\* text.split("crawl:", 1)
CrawlSplit(t) == split_sep1(t, CRAWL)

\* (mutant) the echo without the text
EchoChunk_bare(t) == AGENT_RECEIVED

\* f"agent received: {text}"
EchoChunk(t) == AGENT_RECEIVED \o t

\* text = _extract_text(input); if not text: yield "(empty input)"; return
AgentEnter ==
    /\ pc = "start"
    /\ text' = extract_text(input)
    /\ IF text' = <<>>
       THEN /\ output' = Append(output, EMPTY_INPUT)
            /\ pc' = "done"
       ELSE /\ output' = output
            /\ pc' = "finance"
    /\ UNCHANGED <<input, calls>>

\* 1) finance ticker
Finance ==
    /\ pc = "finance"
    /\ LET maybe == maybe_upper_ticker(text)
       IN  IF Truthy(maybe)
           THEN LET req == yahoo_finance_tool_func(maybe.s)
                IN  \E o \in call_mcp_tool(req.tool, req) :
                        /\ calls' = Append(calls, Call("router", req, o))
                        /\ output' = Append(output, Chunk(o, FINANCE_ERROR))
                        /\ pc' = AfterCall(o.ok, "hello")
           ELSE /\ pc' = "hello"
                /\ UNCHANGED <<calls, output>>
    /\ UNCHANGED <<input, text>>

\* 2) hello tool
Hello ==
    /\ pc = "hello"
    /\ IF startswith(lower(text), HELLO)
       THEN LET req == hello_tool_func(HelloName(text))
            IN  \E o \in call_mcp_tool(req.tool, req) :
                    /\ calls' = Append(calls, Call("router", req, o))
                    /\ output' = Append(output, Chunk(o, HELLO_ERROR))
                    /\ pc' = AfterCall(o.ok, "crawl")
       ELSE /\ pc' = "crawl"
            /\ UNCHANGED <<calls, output>>
    /\ UNCHANGED <<input, text>>

\* 3) web crawl; text.split("crawl:", 1)[1] raises IndexError, outside any
\* try block, when the split gives a single element
Crawl ==
    /\ pc = "crawl"
    /\ IF contains(lower(text), CRAWL)
       THEN IF Len(CrawlSplit(text)) < 2
            THEN /\ pc' = "raised"
                 /\ UNCHANGED <<calls, output>>
            ELSE LET query == strip(CrawlSplit(text)[2])
                     req == web_crawl_tool_func(query)
                 IN  IF query # <<>>
                     THEN \E o \in call_mcp_tool(req.tool, req) :
                            /\ calls' = Append(calls, Call("router", req, o))
                            /\ output' = Append(output, Chunk(o, CRAWL_ERROR))
                            /\ pc' = AfterCall(o.ok, "reason")
                     ELSE /\ pc' = "reason"
                          /\ UNCHANGED <<calls, output>>
       ELSE /\ pc' = "reason"
            /\ UNCHANGED <<calls, output>>
    /\ UNCHANGED <<input, text>>

\* 4) lc_agent.run(text), 5) fallback: echo; `use` is what the engine
\* called while it ran
ReasonWith(use) ==
    /\ pc = "reason"
    /\ \E o \in EngineOutcomes :
        /\ calls' = Append(calls,
                           Call("router",
                                [tool |-> "lc_agent", key |-> "prompt", arg |-> text],
                                o)) \o use
        /\ output' = Append(output,
                            IF o.ok THEN str(o.val) ELSE EchoChunk(text))
        /\ pc' = "done"
    /\ UNCHANGED <<input, text>>

Reason == \E use \in EngineToolUses : ReasonWith(use)

-----------------------------------------------------------------------------
(* The router's specification: one run of agent() on every input.          *)

ClientIdle ==
    /\ acpError = "ACPError"
    /\ cargs = [agent_name |-> <<>>, text |-> NoneV]
    /\ cpc = "idle"
    /\ requests = <<>>
    /\ primary = "none"
    /\ body = [keys |-> {}, output |-> NoneV, data |-> NoneV]
    /\ result = NoneV

NormIdle ==
    /\ seq = NoneV
    /\ nout = <<>>
    /\ npc = "idle"

CmdIdle ==
    /\ cmd = [op |-> "none", agent_name |-> <<>>, text |-> NoneV]
    /\ disc = [kind |-> "none", data |-> NoneV]
    /\ names = <<>>
    /\ picked = NoneV
    /\ kpc = "idle"
    /\ printed = <<>>

\* no call of the bridge in progress
NoCall ==
    [by |-> "none", tool |-> "none", key |-> "none", arg |-> <<>>,
     executor |-> 0, loop |-> 0, conn |-> 0, issued |-> 0,
     ok |-> FALSE, val |-> NoneV]

BridgeIdle ==
    /\ bpc = "idle"
    /\ bcall = NoCall
    /\ blog = <<>>
    /\ executors = {}
    /\ loops = {}
    /\ conns = {}
    /\ made = [executors |-> 0, loops |-> 0, conns |-> 0]
    /\ invocations = <<>>

Init ==
    /\ input \in Inputs
    /\ text = <<>>
    /\ pc = "start"
    /\ output = <<>>
    /\ calls = <<>>
    /\ ClientIdle
    /\ NormIdle
    /\ CmdIdle
    /\ BridgeIdle

Next ==
    \/ AgentEnter /\ UNCHANGED <<clientVars, normVars, cmdVars, bridgeVars>>
    \/ Finance /\ UNCHANGED <<clientVars, normVars, cmdVars, bridgeVars>>
    \/ Hello /\ UNCHANGED <<clientVars, normVars, cmdVars, bridgeVars>>
    \/ Crawl /\ UNCHANGED <<clientVars, normVars, cmdVars, bridgeVars>>
    \/ Reason /\ UNCHANGED <<clientVars, normVars, cmdVars, bridgeVars>>

Spec == Init /\ [][Next]_vars

-----------------------------------------------------------------------------
(* Vocabulary of the router's properties, stated on the text itself and on *)
(* the call log rather than through the operators of the code.             *)

RouterTools == {"yahoo_finance_tool", "hello_tool", "web_crawl_tool"}

\* positions in the call log of the router's own calls of a tool
RouterCalls(tool) ==
    {i \in DOMAIN calls : calls[i].by = "router" /\ calls[i].tool = tool}

\* the run has computed its text; the run is over
Entered == pc # "start"
Terminated == pc \in {"done", "raised"}

\* c is the letter l (given in lower case) in either case
SameLetter(c, l) ==
    c = l \/ \E j \in DOMAIN LowerChars : LowerChars[j] = l /\ UpperChars[j] = c

\* word (lower case) occurs in t at position i, in any letter case
OccursAt(t, word, i) ==
    /\ i >= 1
    /\ i + Len(word) - 1 <= Len(t)
    /\ \A k \in 1..Len(word) : SameLetter(t[i + k - 1], word[k])

OccursIn(t, word) == \E i \in 1..Len(t) : OccursAt(t, word, i)

IsSep(c) == IsSpace(c) \/ c = ","

\* t[a..b] is a maximal run of characters that are neither whitespace nor comma
TokenAt(t, a, b) ==
    /\ 1 <= a /\ a <= b /\ b <= Len(t)
    /\ \A k \in a..b : ~IsSep(t[k])
    /\ a = 1 \/ IsSep(t[a - 1])
    /\ b = Len(t) \/ IsSep(t[b + 1])

\* purely alphabetic, entirely uppercase, length 1 to 6, not a stop word
Qualifies(w) ==
    /\ Len(w) >= 1 /\ Len(w) <= 6
    /\ \A k \in 1..Len(w) : IsUpperCh(w[k])
    /\ w \notin STOP

\* the qualifying tokens of t, as <<start, end>>
QualifyingTokens(t) ==
    {ab \in (1..Len(t)) \X (1..Len(t)) :
        TokenAt(t, ab[1], ab[2]) /\ Qualifies(SubSeq(t, ab[1], ab[2]))}

\* the finance stage has been evaluated
FinanceEvaluated == Entered /\ text # <<>> /\ pc # "finance"

\* the greeting stage has been evaluated: control went past it without a
\* finance result ending the run first
HelloEvaluated ==
    /\ FinanceEvaluated
    /\ pc # "hello"
    /\ \A i \in RouterCalls("yahoo_finance_tool") : ~calls[i].ok

\* the crawl stage has been evaluated
CrawlEvaluated ==
    /\ HelloEvaluated
    /\ pc # "crawl"
    /\ \A i \in RouterCalls("hello_tool") : ~calls[i].ok

\* the reasoning engine was invoked and failed
EngineFailed ==
    \E i \in RouterCalls("lc_agent") : ~calls[i].ok

\* the diagnostic prefix of a tool
ErrorPrefix(tool) ==
    CASE tool = "yahoo_finance_tool" -> FINANCE_ERROR
      [] tool = "hello_tool" -> HELLO_ERROR
      [] tool = "web_crawl_tool" -> CRAWL_ERROR

\* the router's failed tool calls, in call order
RECURSIVE FailedToolCalls(_)
FailedToolCalls(log) ==
    IF log = <<>> THEN <<>>
    ELSE (IF Head(log).by = "router" /\ Head(log).tool \in RouterTools
             /\ ~Head(log).ok
          THEN <<Head(log)>> ELSE <<>>)
         \o FailedToolCalls(Tail(log))

-----------------------------------------------------------------------------
(* C1 (as claimed): on non-empty text the handler always ends normally,    *)
(* with at least one chunk yielded; no exception escapes it.  Refuted by   *)
(* the IndexError of the crawl stage on "Crawl: x".                        *)
C1_RunEndsWithOutput ==
    (Entered /\ text # <<>>) =>
        /\ pc # "raised"
        /\ pc = "done" => Len(output) >= 1

(* C2 (as claimed): once the predicate of an earlier heuristic matches, no *)
(* later branch is reached in that run.  Refuted by a failed finance call  *)
(* falling through.                                                        *)
C2_MatchBlocksLaterBranches ==
    (Entered /\ text # <<>>) =>
        /\ Truthy(maybe_upper_ticker(text)) =>
              /\ pc \notin {"hello", "crawl", "reason"}
              /\ RouterCalls("hello_tool") = {}
              /\ RouterCalls("web_crawl_tool") = {}
              /\ RouterCalls("lc_agent") = {}
        /\ OccursAt(text, HELLO, 1) =>
              /\ pc \notin {"crawl", "reason"}
              /\ RouterCalls("web_crawl_tool") = {}
              /\ RouterCalls("lc_agent") = {}
        /\ OccursIn(text, CRAWL) =>
              /\ pc # "reason"
              /\ RouterCalls("lc_agent") = {}

(* C2 (amended): once the tool call of a heuristic branch has succeeded,   *)
(* the run is over: that call is the last entry of the call log, its       *)
(* result is the last chunk, and no later branch is reached.               *)
C2_SuccessEndsRun ==
    \A i \in DOMAIN calls :
        (calls[i].by = "router" /\ calls[i].tool \in RouterTools /\ calls[i].ok)
        => /\ i = Len(calls)
           /\ pc = "done"
           /\ output # <<>>
           /\ output[Len(output)] = str(calls[i].val)

\* a later branch succeeded after an earlier one matched and failed
C2_Witness ==
    /\ pc = "done"
    /\ \E i \in RouterCalls("yahoo_finance_tool") : ~calls[i].ok
    /\ \E j \in RouterCalls("web_crawl_tool") : calls[j].ok

(* C3 (as claimed): when the reasoning engine fails, the complete output   *)
(* is the single chunk "agent received: " + text.  Refuted by a run whose  *)
(* finance call failed first: its diagnostic chunk precedes the echo.      *)
C3_EchoIsWholeOutput ==
    (pc = "done" /\ EngineFailed) => output = <<AGENT_RECEIVED \o text>>

(* C3 (amended): when the reasoning engine fails, the output is one        *)
(* diagnostic chunk per failed tool call of the router, in call order,     *)
(* followed by the chunk "agent received: " + text, and nothing else.      *)
C3_EchoAfterDiagnostics ==
    (pc = "done" /\ EngineFailed) =>
        LET failed == FailedToolCalls(calls)
        IN  /\ Len(output) = Len(failed) + 1
            /\ output[Len(output)] = AGENT_RECEIVED \o text
            /\ \A k \in 1..Len(failed) :
                  output[k] = ErrorPrefix(failed[k].tool) \o str(failed[k].val)

\* every stage was attempted and failed
C3_Witness ==
    /\ pc = "done"
    /\ EngineFailed
    /\ Len(FailedToolCalls(calls)) = 3
    /\ Len(output) = 4

(* C4: when the input holds no text (no message, no string part, only      *)
(* whitespace), the output is exactly <<"(empty input)">> and no tool and  *)
(* no reasoning-engine call is made.                                       *)
NoVisibleText(inp) ==
    inp.none \/
    \A m \in DOMAIN inp.msgs : \A p \in DOMAIN inp.msgs[m].parts :
        LET part == inp.msgs[m].parts[p]
        IN  (part.cls = "MessagePart" /\ part.content.t = "str")
            => \A k \in DOMAIN part.content.s : IsSpace(part.content.s[k])

C4_EmptyInput ==
    (Entered /\ NoVisibleText(input)) =>
        /\ pc = "done"
        /\ output = <<EMPTY_INPUT>>
        /\ calls = <<>>

\* a run on two whitespace-only parts
C4_Witness ==
    /\ pc = "done"
    /\ ~input.none
    /\ Len(input.msgs) = 2
    /\ Len(input.msgs[1].parts) + Len(input.msgs[2].parts) = 2
    /\ \A m \in DOMAIN input.msgs : \A p \in DOMAIN input.msgs[m].parts :
          input.msgs[m].parts[p].content = StrV(<<" ">>)
    /\ output = <<EMPTY_INPUT>>

(* C5: without 'nvidia' in the text, the router calls the financial-quote  *)
(* tool with the first qualifying token (alphabetic, uppercase, length 1   *)
(* to 6, not a stop word) as ticker, and does not call it when there is no *)
(* such token.                                                             *)
C5_FirstQualifyingToken ==
    (FinanceEvaluated /\ ~OccursIn(text, NVIDIA)) =>
        LET q == QualifyingTokens(text)
            fin == RouterCalls("yahoo_finance_tool")
        IN  IF q = {} THEN fin = {}
            ELSE /\ Cardinality(fin) = 1
                 /\ \A i \in fin :
                      /\ calls[i].key = "ticker"
                      /\ \E ab \in q :
                           /\ \A cd \in q : ab[1] <= cd[1]
                           /\ calls[i].arg = SubSeq(text, ab[1], ab[2])

\* a stop word and a lowercase word come before the ticker
C5_Witness ==
    /\ text = <<"C","E","O"," ","t","h","e",",","I","B","M">>
    /\ \E i \in RouterCalls("yahoo_finance_tool") : calls[i].arg = <<"I","B","M">>

(* C6: with 'nvidia' in the text, in any letter case, the ticker is "NVDA" *)
(* whatever other uppercase tokens the text holds, and the financial-quote *)
(* tool is called with it.                                                 *)
C6_NvidiaOverride ==
    (FinanceEvaluated /\ OccursIn(text, NVIDIA)) =>
        LET fin == RouterCalls("yahoo_finance_tool")
        IN  /\ Cardinality(fin) = 1
            /\ \A i \in fin : calls[i].key = "ticker" /\ calls[i].arg = NVDA

\* an uppercase token comes before the vendor name, typed in mixed case
C6_Witness ==
    /\ text = <<"A","A","P","L"," ","N","V","i","d","i","a">>
    /\ \E i \in RouterCalls("yahoo_finance_tool") : calls[i].arg = NVDA

(* C7: when the greeting stage is reached and the text starts with 'hello' *)
(* in any letter case, the greeting tool is called with the rest of the    *)
(* text after its first run of whitespace, or with "there" when the text   *)
(* has no second word.                                                     *)
RestAfterFirstWord(t) ==
    LET ws == {i \in 1..Len(t) : IsSpace(t[i])}
    IN  IF ws = {} THEN THERE
        ELSE LET first == CHOOSE i \in ws : \A j \in ws : i <= j
                 after == {k \in first..Len(t) : ~IsSpace(t[k])}
             IN  SubSeq(t, CHOOSE k \in after : \A j \in after : k <= j, Len(t))

C7_GreetingName ==
    (HelloEvaluated /\ OccursAt(text, HELLO, 1)) =>
        LET hel == RouterCalls("hello_tool")
        IN  /\ Cardinality(hel) = 1
            /\ \A i \in hel :
                  /\ calls[i].key = "name"
                  /\ calls[i].arg = RestAfterFirstWord(text)

\* the rest of the text is more than one word, after a run of two whitespaces
C7_Witness ==
    /\ text = <<"H","e","l","l","o"," ","\t","B","o","b"," ","c","r","a","w","l",":">>
    /\ \E i \in RouterCalls("hello_tool") :
          calls[i].arg = <<"B","o","b"," ","c","r","a","w","l",":">>

(* C8 (as claimed): when the crawl stage is reached and the text contains  *)
(* 'crawl:' in any letter case, the query is what follows the first such   *)
(* occurrence, trimmed; a non-empty query is sent to the web-crawl tool,   *)
(* an empty one skips the stage without error.  Refuted by "Crawl: x",     *)
(* on which the stage raises IndexError.                                   *)
QueryAfterCrawl(t) ==
    LET at == {i \in 1..Len(t) : OccursAt(t, CRAWL, i)}
        first == CHOOSE i \in at : \A j \in at : i <= j
        rest == SubSeq(t, first + Len(CRAWL), Len(t))
        keep == {k \in DOMAIN rest : ~IsSpace(rest[k])}
    IN  IF keep = {} THEN <<>>
        ELSE SubSeq(rest, CHOOSE k \in keep : \A j \in keep : k <= j,
                          CHOOSE k \in keep : \A j \in keep : k >= j)

C8_CrawlQuery ==
    (CrawlEvaluated /\ OccursIn(text, CRAWL)) =>
        LET cr == RouterCalls("web_crawl_tool")
        IN  /\ pc # "raised"
            /\ IF QueryAfterCrawl(text) = <<>> THEN cr = {}
               ELSE /\ Cardinality(cr) = 1
                    /\ \A i \in cr :
                          /\ calls[i].key = "query"
                          /\ calls[i].arg = QueryAfterCrawl(text)

-----------------------------------------------------------------------------
(* src/client.py: run_with_fallback().                                     *)

\* the agent names and the texts a run is asked for
AgentNames == {<<"a","g","e","n","t">>, <<"d","a","t","e","A","g","e","n","t">>}
RunTexts == {NoneV, StrV(<<>>), StrV(<<"h","i">>)}

\* how client.run_sync() ends: a Run (its output), an ACPError of the SDK,
\* or another exception (a transport error of httpx)
PrimaryOutcomes ==
    {[kind |-> "ok", out |-> ListV(<<>>)],
     [kind |-> "ok", out |-> ListV(<<StrV(<<"h","i">>)>>)],
     [kind |-> "ACPError", out |-> NoneV],
     [kind |-> "OtherError", out |-> NoneV]}

\* the values found under a key of the JSON body
BodyValues ==
    {NoneV, StrV(<<>>), StrV(<<"o","k">>), IntV(0),
     ListV(<<>>), ListV(<<StrV(<<"a">>)>>), ListV(<<StrV(<<"a">>), StrV(<<"b">>)>>)}

\* the JSON object of a 2xx answer: which of the keys it has, and their values
Bodies ==
    {[keys |-> ks, output |-> o, data |-> d] :
        ks \in SUBSET {"output", "data"}, o \in BodyValues, d \in BodyValues}

\* a body lists a value only for the keys it has
WellFormed(b) ==
    /\ "output" \notin b.keys => b.output = NoneV
    /\ "data" \notin b.keys => b.data = NoneV

\* how the raw POST ends: a JSON object, or an exception of http.post(),
\* r.raise_for_status(), r.json() or data.get()
FallbackFailures == {"transport", "status", "not_json", "not_object"}

\* (mutant) a handler that catches nothing
Catches_never(binding, kind) == FALSE

\* `except ACPError:` with ACPError the SDK's class, or Exception when the
\* import of the SDK's class failed
Catches(binding, kind) == binding = "Exception" \/ kind = "ACPError"

\* parts = [] if text is None else [MessagePart(content=text)]
\* client.run_sync(agent=agent_name, input=[Message(parts=parts)])
PrimaryRequest(a) ==
    [schema |-> "agent", name |-> a.agent_name,
     input |-> <<IF a.text.t = "None" THEN <<>> ELSE <<a.text>>>>]

\* json={"agent_name": agent_name,
\*       "input": [] if text is None else [{"parts": [{"content": text}]}]}
FallbackRequest(a) ==
    [schema |-> "agent_name", name |-> a.agent_name,
     input |-> IF a.text.t = "None" THEN <<>> ELSE <<<<a.text>>>>]

\* data.get(key)
Get(b, key) ==
    IF key \notin b.keys THEN NoneV
    ELSE IF key = "output" THEN b.output ELSE b.data

\* out = data.get("output") or data.get("data") or []
\* if isinstance(out, str): out = [out]
ExtractOutput(b) ==
    LET out == IF Truthy(Get(b, "output")) THEN Get(b, "output")
               ELSE IF Truthy(Get(b, "data")) THEN Get(b, "data")
               ELSE ListV(<<>>)
    IN  IF out.t = "str" THEN ListV(<<out>>) ELSE out

\* the SDK run inside the try block
PrimaryRun ==
    /\ cpc = "start"
    /\ requests' = Append(requests, PrimaryRequest(cargs))
    /\ \E o \in PrimaryOutcomes :
        /\ primary' = o.kind
        /\ IF o.kind = "ok"
           THEN /\ result' = o.out
                /\ cpc' = "returned"
           ELSE /\ result' = result
                /\ cpc' = IF Catches(acpError, o.kind) THEN "fallback" ELSE "raised"
    /\ UNCHANGED <<acpError, cargs, body>>

\* the raw POST of the except block, answered by a JSON object
FallbackPost ==
    /\ cpc = "fallback"
    /\ requests' = Append(requests, FallbackRequest(cargs))
    /\ \E b \in Bodies :
        /\ WellFormed(b)
        /\ body' = b
        /\ result' = ExtractOutput(b)
        /\ cpc' = "returned"
    /\ UNCHANGED <<acpError, cargs, primary>>

\* the raw POST of the except block, ending in an exception
FallbackFails ==
    /\ cpc = "fallback"
    /\ requests' = Append(requests, FallbackRequest(cargs))
    /\ \E f \in FallbackFailures : cpc' = "raised_" \o f
    /\ UNCHANGED <<acpError, cargs, primary, body, result>>

AgentIdle ==
    /\ input = [none |-> TRUE, msgs |-> <<>>]
    /\ text = <<>>
    /\ pc = "idle"
    /\ output = <<>>
    /\ calls = <<>>

ClientInit ==
    /\ acpError \in {"ACPError", "Exception"}
    /\ cargs \in [agent_name : AgentNames, text : RunTexts]
    /\ cpc = "start"
    /\ requests = <<>>
    /\ primary = "none"
    /\ body = [keys |-> {}, output |-> NoneV, data |-> NoneV]
    /\ result = NoneV
    /\ AgentIdle
    /\ NormIdle
    /\ CmdIdle
    /\ BridgeIdle

ClientNext ==
    \/ PrimaryRun /\ UNCHANGED <<agentVars, normVars, cmdVars, bridgeVars>>
    \/ FallbackPost /\ UNCHANGED <<agentVars, normVars, cmdVars, bridgeVars>>
    \/ FallbackFails /\ UNCHANGED <<agentVars, normVars, cmdVars, bridgeVars>>

ClientSpec == ClientInit /\ [][ClientNext]_vars

-----------------------------------------------------------------------------
(* Vocabulary of the client's properties.                                  *)

ClientDone == cpc \notin {"idle", "start", "fallback"}

\* positions of the requests of one schema
Sent(schema) == {i \in DOMAIN requests : requests[i].schema = schema}

(* C9 (as claimed): the fallback request is sent if and only if the        *)
(* primary request ended in a protocol-level error.  Refuted when the      *)
(* SDK's error class cannot be imported: ACPError is then Exception, and   *)
(* a transport error of the primary request also triggers the fallback.    *)
C9_FallbackIffProtocolError ==
    ClientDone => (Sent("agent_name") # {} <=> primary = "ACPError")

(* C9 (amended): the primary request is sent first and exactly once, the   *)
(* fallback request at most once, and the fallback is sent if and only if  *)
(* the primary request raised an exception that the name ACPError, as      *)
(* bound at import, covers: the SDK's protocol error, or any exception     *)
(* when the SDK's class could not be imported.  No fallback is sent after  *)
(* a primary request that succeeded.                                       *)
C9_PrimaryThenFallback ==
    /\ cpc # "start" =>
          /\ requests # <<>>
          /\ requests[1] = [schema |-> "agent", name |-> cargs.agent_name,
                            input |-> <<IF cargs.text = NoneV THEN <<>>
                                        ELSE <<cargs.text>>>>]
          /\ Cardinality(Sent("agent")) = 1
    /\ Cardinality(Sent("agent_name")) <= 1
    /\ \A i \in Sent("agent_name") :
          /\ i = 2
          /\ requests[i].name = cargs.agent_name
    /\ ClientDone =>
          /\ Sent("agent_name") # {} <=>
                \/ primary = "ACPError"
                \/ primary = "OtherError" /\ acpError = "Exception"
          /\ primary = "ok" => Len(requests) = 1

\* the fallback answered after a protocol error of the primary request
C9_Witness ==
    /\ cpc = "returned"
    /\ acpError = "ACPError"
    /\ primary = "ACPError"
    /\ Len(requests) = 2
    /\ requests[1].schema = "agent"
    /\ requests[2].schema = "agent_name"

(* C10 (as claimed): on the fallback path the result is the value under    *)
(* "output" whenever that key is present, the value under "data" only when *)
(* "output" is absent, the empty sequence when both are absent, and a      *)
(* single string is wrapped into a one-element sequence.  Refuted by the   *)
(* body {"output": [], "data": ["a"]}, for which ["a"] is returned.        *)
C10_OutputKeyFirst ==
    (cpc = "returned" /\ Len(requests) = 2) =>
        LET chosen == IF "output" \in body.keys THEN body.output
                      ELSE IF "data" \in body.keys THEN body.data
                      ELSE ListV(<<>>)
        IN  result = IF chosen.t = "str" THEN ListV(<<chosen>>) ELSE chosen

-----------------------------------------------------------------------------
(* More properties of the router (src/main.py agent).                      *)

\* the stage that follows the stage of a tool
StageAfter(tool) ==
    CASE tool = "yahoo_finance_tool" -> "hello"
      [] tool = "hello_tool" -> "crawl"
      [] tool = "web_crawl_tool" -> "reason"

\* the position of the stage of a tool in the routing order
StageRank(tool) ==
    CASE tool = "yahoo_finance_tool" -> 1
      [] tool = "hello_tool" -> 2
      [] tool = "web_crawl_tool" -> 3

\* this step is a tool call of the router that failed
ToolFailsInStep ==
    /\ Len(calls') = Len(calls) + 1
    /\ calls'[Len(calls')].by = "router"
    /\ calls'[Len(calls')].tool \in RouterTools
    /\ ~calls'[Len(calls')].ok

(* C16: a failed tool call of a routing branch yields exactly one chunk,   *)
(* the diagnostic of that branch (its prefix, then the error), and control *)
(* continues at the next heuristic in order; the failure does not end the  *)
(* run.                                                                    *)
C16_FailureFallsThrough ==
    [][ToolFailsInStep =>
          LET c == calls'[Len(calls')]
          IN  /\ output' = Append(output, ErrorPrefix(c.tool) \o str(c.val))
              /\ pc' = StageAfter(c.tool)
              /\ pc' \notin {"done", "raised"}]_vars

\* all three branches failed, one diagnostic each, and the run goes on
C16_Witness ==
    /\ pc = "reason"
    /\ Len(FailedToolCalls(calls)) = 3
    /\ output = <<FINANCE_ERROR \o <<"t","i","m","e","o","u","t">>,
                  HELLO_ERROR \o INVALID_ARGS,
                  CRAWL_ERROR \o <<"t","i","m","e","o","u","t">>>>

(* C17 (as claimed): the output of every run on non-empty text is zero or  *)
(* more diagnostic chunks, at most one per stage and in stage order, then  *)
(* exactly one final chunk (a tool result, the reasoning response or the   *)
(* echo), and the reasoning engine is invoked only when no tool branch     *)
(* succeeded.  Refuted by the runs that end in the IndexError of the crawl *)
(* stage: they have no final chunk.                                        *)
C17_OutputShape ==
    (Terminated /\ text # <<>>) =>
        LET failed == FailedToolCalls(calls)
            won == {i \in DOMAIN calls : calls[i].by = "router"
                        /\ calls[i].tool \in RouterTools /\ calls[i].ok}
            last == output[Len(output)]
        IN  /\ Len(output) = Len(failed) + 1
            /\ \A k \in 1..Len(failed) :
                  output[k] = ErrorPrefix(failed[k].tool) \o str(failed[k].val)
            /\ \A j, k \in 1..Len(failed) :
                  j < k => StageRank(failed[j].tool) < StageRank(failed[k].tool)
            /\ \/ \E i \in won : last = str(calls[i].val)
               \/ \E i \in RouterCalls("lc_agent") :
                     last = IF calls[i].ok THEN str(calls[i].val)
                            ELSE AGENT_RECEIVED \o text
            /\ RouterCalls("lc_agent") # {} => won = {}

(* C20 (as claimed): the keys of every payload the router sends are the    *)
(* parameters the endpoint declares for that tool, so that no call of the  *)
(* router is refused for its arguments.  Refuted by the greeting call,     *)
(* sent as {"name": ...} to a tool declared as hello_tool(query).          *)
C20_PayloadKeysDeclared ==
    \A i \in DOMAIN calls :
        (calls[i].by = "router" /\ calls[i].tool \in RouterTools) =>
            /\ {calls[i].key} = ToolParams(calls[i].tool)
            /\ \E o \in call_mcp_tool(calls[i].tool,
                         [tool |-> calls[i].tool, key |-> calls[i].key,
                          arg |-> calls[i].arg]) : o.ok

-----------------------------------------------------------------------------
(* The Output Normalizer: src/client.py _normalize_output.                 *)

\* largest number of items of a sequence handed to the normalizer
MaxItems == 2

CONTENT == <<"c","o","n","t","e","n","t">>

\* the items a run may deliver: strings, dicts with and without "content",
\* Message-like objects with and without a `content`, and other values
NormItems ==
    {StrV(<<"h","i">>), StrV(<<>>),
     DictV(CONTENT, StrV(<<"b">>)), DictV(CONTENT, NoneV),
     DictV(CONTENT, IntV(7)), DictV(<<"n","a","m","e">>, StrV(<<"b">>)),
     EmptyDictV,
     ObjV(CONTENT, StrV(<<"m">>)), ObjV(CONTENT, NoneV),
     ObjV(<<"r","o","l","e">>, StrV(<<"u">>)),
     IntV(7), NoneV}

NormInputs ==
    {NoneV} \cup
    {ListV(l) : l \in UNION {[1..k -> NormItems] : k \in 0..MaxItems}}

\* the body of the loop with a dict whose "content" is None taken for a
\* dict without the key
NormItem_nullcontent(item) ==
    IF item.t = "str" THEN item.s
    ELSE IF item.t = "dict" /\ Has(item, CONTENT) /\ item.l[1] # NoneV
         THEN str(item.l[1])
    ELSE LET content == IF item.t = "obj" /\ Has(item, CONTENT)
                        THEN item.l[1] ELSE NoneV
         IN  IF content # NoneV THEN str(content) ELSE str(item)

\* the body of the loop: the string appended for one item
NormItem(item) ==
    IF item.t = "str" THEN item.s
    ELSE IF item.t = "dict" /\ Has(item, CONTENT) THEN str(item.l[1])
    ELSE LET content == IF item.t = "obj" /\ Has(item, CONTENT)
                        THEN item.l[1] ELSE NoneV
         IN  IF content # NoneV THEN str(content) ELSE str(item)

\* the loop, appending nothing for an item that has no content
RECURSIVE NormLoop_dropping(_, _)
NormLoop_dropping(items, acc) ==
    IF items = <<>> THEN acc
    ELSE NormLoop_dropping(Tail(items),
            IF NormItem(Head(items)) = str(Head(items))
               /\ Head(items).t # "str"
            THEN acc ELSE Append(acc, NormItem(Head(items))))

\* the loop over the items, appending to `out`
RECURSIVE NormLoop(_, _)
NormLoop(items, acc) ==
    IF items = <<>> THEN acc
    ELSE NormLoop(Tail(items), Append(acc, NormItem(Head(items))))

normalize_output(sq) == NormLoop(IF Truthy(sq) THEN sq.l ELSE <<>>, <<>>)

Normalize ==
    /\ npc = "start"
    /\ nout' = normalize_output(seq)
    /\ npc' = "done"
    /\ UNCHANGED seq

NormInit ==
    /\ seq \in NormInputs
    /\ nout = <<>>
    /\ npc = "start"
    /\ AgentIdle
    /\ ClientIdle
    /\ CmdIdle
    /\ BridgeIdle

NormNext ==
    \/ Normalize /\ UNCHANGED <<agentVars, clientVars, cmdVars, bridgeVars>>

NormSpec == NormInit /\ [][NormNext]_vars

\* the items of the input sequence, a null input having none
NormInput == IF seq = NoneV THEN <<>> ELSE seq.l

\* a list of strings as a Python list value
StrList(strs) == ListV([i \in DOMAIN strs |-> StrV(strs[i])])

\* C14: the normalizer returns as many strings as the input has items (a
\* null input has none), position i is what the normalizer makes of item i
\* alone, a string item is returned unchanged, and normalizing the result
\* again returns it unchanged.
C14_LengthOrderIdempotent ==
    npc = "done" =>
        /\ Len(nout) = Len(NormInput)
        /\ \A i \in DOMAIN NormInput :
            /\ <<nout[i]>> = normalize_output(ListV(<<NormInput[i]>>))
            /\ NormInput[i].t = "str" => nout[i] = NormInput[i].s
        /\ normalize_output(StrList(nout)) = nout

C14_Witness ==
    /\ npc = "done"
    /\ Len(NormInput) = 2
    /\ NormInput[1] = EmptyDictV
    /\ NormInput[2] = StrV(<<"h","i">>)
    /\ nout = <<<<"{","}">>, <<"h","i">>>>

\* C19: per item the first matching rule decides: a string is kept; a dict
\* with key "content" gives str of that value, "None" for a null value; an
\* item with a non-null `content` attribute gives str of the attribute; any
\* other item, a null `content` attribute and a dict without the key
\* included, gives str(item).
C19_FirstMatchWins ==
    npc = "done" =>
        /\ Len(nout) = Len(NormInput)
        /\ \A i \in DOMAIN NormInput :
            LET item == NormInput[i]
                isStr == item.t = "str"
                hasKey == item.t = "dict" /\ item.l # <<>> /\ item.s = CONTENT
                hasAttr == /\ item.t = "obj" /\ item.l # <<>>
                           /\ item.s = CONTENT /\ item.l[1] # NoneV
            IN  /\ isStr => nout[i] = item.s
                /\ (~isStr /\ hasKey) =>
                      /\ nout[i] = str(item.l[1])
                      /\ item.l[1] = NoneV => nout[i] = <<"N","o","n","e">>
                /\ (~isStr /\ ~hasKey /\ hasAttr) => nout[i] = str(item.l[1])
                /\ (~isStr /\ ~hasKey /\ ~hasAttr) => nout[i] = str(item)

C19_Witness ==
    /\ npc = "done"
    /\ NormInput = <<DictV(CONTENT, NoneV), ObjV(CONTENT, NoneV)>>
    /\ nout = <<<<"N","o","n","e">>,
                <<"c","o","n","t","e","n","t","=","N","o","n","e">>>>

-----------------------------------------------------------------------------
(* The client's commands: src/client.py discover_agents,                   *)
(* choose_default_agent, ask_anything and call_named.                      *)

\* largest number of elements of a discovered "agents" list
MaxAgents == 2

AGENT ==
    <<"a","g","e","n","t">>
CHAT_AGENT ==
    <<"c","h","a","t","_","a","g","e","n","t">>
ECHO ==
    <<"e","c","h","o">>
DATE_AGENT ==
    <<"d","a","t","e","A","g","e","n","t">>
AGENTS ==
    <<"a","g","e","n","t","s">>
NAME ==
    <<"n","a","m","e">>
ACP_SERVER_URL ==
    <<"h","t","t","p",":","/","/","1","2","7",".","0",".","0",".","1",
      ":","8","0","0","2">>
NO_AGENTS ==
    <<"N","o"," ","a","g","e","n","t","s"," ","f","o","u","n","d"," ",
      "a","t",":">>
TIP ==
    <<"T","i","p",":"," ","e","n","s","u","r","e"," ","y","o","u","r",
      " ","A","C","P"," ","s","e","r","v","e","r"," ","i","s"," ","r",
      "u","n","n","i","n","g"," ","a","n","d"," ","t","h","e"," ","U",
      "R","L"," ","(","a","n","d"," ","p","r","e","f","i","x",")"," ",
      "i","s"," ","c","o","r","r","e","c","t",".">>
SAYS ==
    <<" ","s","a","y","s",":">>
NO_INPUT ==
    <<"(","n","o"," ","i","n","p","u","t",")">>
ARROW ==
    <<")"," ","→">>
NONE_LISTED ==
    <<"<","n","o","n","e",">">>
NOT_FOUND_AT ==
    <<"'"," ","n","o","t"," ","f","o","u","n","d"," ","a","t"," ">>
AVAILABLE ==
    <<"."," ","A","v","a","i","l","a","b","l","e",":"," ">>
AGENT_QUOTE ==
    <<"A","g","e","n","t"," ","'">>

\* for preferred in ("agent", "chat_agent", "echo")
PREFERRED == <<AGENT, CHAT_AGENT, ECHO>>

\* sep.join(list)
RECURSIVE join(_, _)
join(sep, list) ==
    IF list = <<>> THEN <<>>
    ELSE IF Len(list) = 1 THEN list[1]
    ELSE list[1] \o sep \o join(sep, Tail(list))

\* the elements an "agents" list may hold
AgentItems ==
    {StrV(AGENT), StrV(ECHO), StrV(CHAT_AGENT), StrV(DATE_AGENT),
     DictV(NAME, StrV(ECHO)), DictV(NAME, IntV(7)), IntV(7)}

AgentLists == UNION {[1..k -> AgentItems] : k \in 0..MaxAgents}

\* the JSON bodies of a 2xx answer of GET /agents
DiscoveryBodies ==
    {NoneV, StrV(<<"o","k">>), ListV(<<StrV(AGENT)>>),
     EmptyDictV, DictV(<<"d","a","t","a">>, ListV(<<StrV(AGENT)>>)),
     DictV(AGENTS, NoneV), DictV(AGENTS, IntV(7)),
     DictV(AGENTS, StrV(<<>>)), DictV(AGENTS, StrV(<<"a","b">>)),
     DictV(AGENTS, EmptyDictV), DictV(AGENTS, DictV(AGENT, EmptyDictV))}
    \cup {DictV(AGENTS, ListV(l)) : l \in AgentLists}

\* how GET /agents ends: a 2xx answer with a JSON body, or an exception of
\* http.get(), r.raise_for_status() or r.json()
DiscoveryAnswers ==
    {[kind |-> "ok", data |-> d] : d \in DiscoveryBodies}
    \cup {[kind |-> k, data |-> NoneV] : k \in {"network", "status", "not_json"}}

\* what `for item in v` iterates over, for the values that are iterable
Iter(v) ==
    CASE v.t = "list" -> v.l
      [] v.t = "str"  -> [i \in DOMAIN v.s |-> StrV(<<v.s[i]>>)]
      [] v.t = "dict" -> IF v.l = <<>> THEN <<>> ELSE <<StrV(v.s)>>

\* the loop over the elements, appending to `names`
RECURSIVE NamesLoop(_, _)
NamesLoop(items, acc) ==
    IF items = <<>> THEN acc
    ELSE LET item == Head(items)
         IN  NamesLoop(Tail(items),
                IF item.t = "dict" /\ Has(item, NAME) /\ item.l[1].t = "str"
                THEN Append(acc, item.l[1].s)
                ELSE IF item.t = "str" THEN Append(acc, item.s)
                ELSE acc)

\* discover_agents(): every exception raised inside the try block, the
\* AttributeError of data.get on a body that is no dict and the TypeError of
\* iterating a value that is not iterable included, ends in `return []`
discover_agents(answer) ==
    IF answer.kind # "ok" THEN <<>>
    ELSE IF answer.data.t # "dict" THEN <<>>
    ELSE LET agents == IF Has(answer.data, AGENTS) THEN answer.data.l[1]
                       ELSE ListV(<<>>)
         IN  IF agents.t \notin {"list", "str", "dict"} THEN <<>>
             ELSE NamesLoop(Iter(agents), <<>>)

\* (mutant) the first name of the list that is a preferred one
choose_default_agent_listorder(nms) ==
    LET hits == {i \in DOMAIN nms : nms[i] \in Range(PREFERRED)}
    IN  IF hits # {} THEN StrV(nms[CHOOSE i \in hits : \A j \in hits : i <= j])
        ELSE IF nms # <<>> THEN StrV(nms[1]) ELSE NoneV

\* choose_default_agent(), after its call of discover_agents()
choose_default_agent(nms) ==
    LET hits == {p \in DOMAIN PREFERRED : PREFERRED[p] \in Range(nms)}
    IN  IF hits # {}
        THEN StrV(PREFERRED[CHOOSE p \in hits : \A q \in hits : p <= q])
        ELSE IF nms # <<>> THEN StrV(nms[1]) ELSE NoneV

\* (mutant) a client that calls whatever name it is given
Registered_always(agent_name, nms) == TRUE

\* the negation of `agent_name not in names`
Registered(agent_name, nms) == agent_name \in Range(nms)

\* the commands of main(): a message for the default agent, --date,
\* --agent MESSAGE, and --agent-name with or without a message
Commands ==
    {[op |-> "ask", agent_name |-> <<>>, text |-> StrV(<<"h","i">>)],
     [op |-> "call", agent_name |-> DATE_AGENT, text |-> NoneV],
     [op |-> "call", agent_name |-> AGENT, text |-> StrV(<<"h","i">>)],
     [op |-> "call", agent_name |-> AGENT, text |-> StrV(<<>>)],
     [op |-> "call", agent_name |-> <<"a">>, text |-> NoneV]}

\* names = await discover_agents(base_url), the first statement of
\* call_named() and, through choose_default_agent(), of ask_anything()
Discover ==
    /\ kpc = "start"
    /\ \E answer \in DiscoveryAnswers :
        /\ disc' = answer
        /\ names' = discover_agents(answer)
    /\ kpc' = "discovered"
    /\ UNCHANGED <<cmd, picked, printed>>
    /\ UNCHANGED clientVars

\* ask_anything() up to its call of run_with_fallback()
AskAnything ==
    /\ kpc = "discovered"
    /\ cmd.op = "ask"
    /\ picked' = choose_default_agent(names)
    /\ IF ~Truthy(picked')
       THEN /\ printed' = printed \o <<NO_AGENTS \o <<" ">> \o ACP_SERVER_URL, TIP>>
            /\ kpc' = "done"
            /\ UNCHANGED clientVars
       ELSE /\ cargs' = [agent_name |-> picked'.s, text |-> cmd.text]
            /\ cpc' = "start"
            /\ kpc' = "running"
            /\ UNCHANGED <<printed, acpError, requests, primary, body, result>>
    /\ UNCHANGED <<cmd, disc, names>>

\* call_named() up to its call of run_with_fallback()
CallNamed ==
    /\ kpc = "discovered"
    /\ cmd.op = "call"
    /\ IF ~Registered(cmd.agent_name, names)
       THEN /\ printed' = Append(printed,
                    AGENT_QUOTE \o cmd.agent_name \o NOT_FOUND_AT
                    \o ACP_SERVER_URL \o AVAILABLE
                    \o (IF join(<<",", " ">>, names) # <<>>
                        THEN join(<<",", " ">>, names) ELSE NONE_LISTED))
            /\ kpc' = "done"
            /\ UNCHANGED clientVars
       ELSE /\ cargs' = [agent_name |-> cmd.agent_name, text |-> cmd.text]
            /\ cpc' = "start"
            /\ kpc' = "running"
            /\ UNCHANGED <<printed, acpError, requests, primary, body, result>>
    /\ UNCHANGED <<cmd, disc, names, picked>>

\* out = _normalize_output(out) and the print() that ends either command
Report ==
    /\ kpc = "running"
    /\ cpc = "returned"
    /\ LET joined == join(<<>>, normalize_output(result))
       IN  printed' = Append(printed,
              IF cmd.op = "ask"
              THEN picked.s \o SAYS \o <<" ">> \o joined
              ELSE cmd.agent_name \o <<"(">>
                   \o (IF cmd.text # NoneV THEN cmd.text.s ELSE NO_INPUT)
                   \o ARROW \o <<" ">> \o joined)
    /\ kpc' = "done"
    /\ UNCHANGED <<cmd, disc, names, picked>>
    /\ UNCHANGED clientVars

\* an exception of run_with_fallback() leaves the command
Propagate ==
    /\ kpc = "running"
    /\ cpc \notin {"start", "fallback", "returned"}
    /\ kpc' = "raised"
    /\ UNCHANGED <<cmd, disc, names, picked, printed>>
    /\ UNCHANGED clientVars

CommandInit ==
    /\ cmd \in Commands
    /\ disc = [kind |-> "none", data |-> NoneV]
    /\ names = <<>>
    /\ picked = NoneV
    /\ kpc = "start"
    /\ printed = <<>>
    /\ acpError \in {"ACPError", "Exception"}
    /\ cargs = [agent_name |-> <<>>, text |-> NoneV]
    /\ cpc = "idle"
    /\ requests = <<>>
    /\ primary = "none"
    /\ body = [keys |-> {}, output |-> NoneV, data |-> NoneV]
    /\ result = NoneV
    /\ AgentIdle
    /\ NormIdle
    /\ BridgeIdle

CommandNext ==
    \/ Discover /\ UNCHANGED <<agentVars, normVars, bridgeVars>>
    \/ AskAnything /\ UNCHANGED <<agentVars, normVars, bridgeVars>>
    \/ CallNamed /\ UNCHANGED <<agentVars, normVars, bridgeVars>>
    \/ PrimaryRun /\ UNCHANGED <<agentVars, normVars, cmdVars, bridgeVars>>
    \/ FallbackPost /\ UNCHANGED <<agentVars, normVars, cmdVars, bridgeVars>>
    \/ FallbackFails /\ UNCHANGED <<agentVars, normVars, cmdVars, bridgeVars>>
    \/ Report /\ UNCHANGED <<agentVars, normVars, bridgeVars>>
    \/ Propagate /\ UNCHANGED <<agentVars, normVars, bridgeVars>>

CommandSpec == CommandInit /\ [][CommandNext]_vars

-----------------------------------------------------------------------------
(* Vocabulary of the commands' properties.                                  *)

\* the discovery of the command has answered
Discovered == kpc \notin {"idle", "start"}

\* the default agent of the command has been chosen
Chose == cmd.op = "ask" /\ kpc \in {"running", "done", "raised"}

Listed(n) == \E i \in DOMAIN names : names[i] = n

\* the answer is a JSON object whose "agents" is a list
WellShaped ==
    /\ disc.kind = "ok"
    /\ disc.data.t = "dict"
    /\ disc.data.l # <<>>
    /\ disc.data.s = AGENTS
    /\ disc.data.l[1].t = "list"

\* an element that is a plain string, or a mapping with a string "name"
Named(item) ==
    \/ item.t = "str"
    \/ item.t = "dict" /\ item.l # <<>> /\ item.s = NAME /\ item.l[1].t = "str"

NameOf(item) == IF item.t = "str" THEN item.s ELSE item.l[1].s

\* C11: the default agent is "agent" if discovered, else "chat_agent" if
\* discovered, else "echo" if discovered, else the first discovered name,
\* else none; where the preferred names stand in the list plays no part.
C11_PriorityChoice ==
    Chose =>
        picked = IF Listed(AGENT) THEN StrV(AGENT)
                 ELSE IF Listed(CHAT_AGENT) THEN StrV(CHAT_AGENT)
                 ELSE IF Listed(ECHO) THEN StrV(ECHO)
                 ELSE IF names # <<>> THEN StrV(names[1])
                 ELSE NoneV

C11_Witness ==
    /\ Chose
    /\ names = <<ECHO, AGENT>>
    /\ picked = StrV(AGENT)

\* C12: a command that addresses an agent by name sends a run request, of
\* either schema, only for a name that its own discovery returned; with the
\* name absent, a failed discovery included, it sends none.
C12_NoRunForUnlistedName ==
    cmd.op = "call" =>
        /\ requests # <<>> => (Discovered /\ Listed(cmd.agent_name))
        /\ \A i \in DOMAIN requests : requests[i].name = cmd.agent_name
        /\ (kpc \in {"running", "done", "raised"} /\ ~Listed(cmd.agent_name))
              => (requests = <<>> /\ kpc = "done")

C12_Witness ==
    /\ cmd.op = "call"
    /\ cmd.agent_name = AGENT
    /\ disc.kind = "network"
    /\ kpc = "done"
    /\ requests = <<>>
    /\ Len(printed) = 1

(* C13 (as claimed): discovery hands its caller the empty sequence on a    *)
(* failed request and on every body that is not an object with an "agents" *)
(* list, and on such a body the names of its string elements and of its    *)
(* elements with a string "name", in the order of the response.  Refuted   *)
(* by the body {"agents": "ab"}, for which ["a", "b"] is returned.         *)
C13_EmptyUnlessWellShaped ==
    Discovered =>
        IF WellShaped
        THEN LET items == disc.data.l[1].l
                 named == {i \in DOMAIN items : Named(items[i])}
             IN  /\ Len(names) = Cardinality(named)
                 /\ \A i \in named :
                      names[Cardinality({j \in named : j <= i})] = NameOf(items[i])
        ELSE names = <<>>

-----------------------------------------------------------------------------
(* The Tool Call Bridge, src/main.py call_mcp_tool, step by step: the      *)
(* executor of the `with` statement, the event loop of asyncio.run(), the  *)
(* connection of `async with Client(...)`, the one call_tool request, and  *)
(* the three exits in reverse order.  The router's stages are the actions  *)
(* of the router's specification, resumed with the outcome of the bridge.  *)

\* the texts of the runs, one message of one part each
BridgeTexts ==
    PartTexts \cup
    {<<"h","e","l","l","o"," ","A","A","P","L"," ","c","r","a","w","l",":"," ","x">>,
     <<"h","e","l","l","o"," ","c","r","a","w","l",":"," ","x">>}

BridgeInputs ==
    {[none |-> FALSE,
      msgs |-> <<[parts |-> <<[cls |-> "MessagePart", content |-> StrV(t)]>>]>>] :
        t \in BridgeTexts}

\* the requests a stage of agent() hands to the bridge for a text
StageRequests(stage, t) ==
    CASE stage = "finance" ->
            IF Truthy(maybe_upper_ticker(t))
            THEN {yahoo_finance_tool_func(maybe_upper_ticker(t).s)} ELSE {}
      [] stage = "hello" ->
            IF startswith(lower(t), HELLO)
            THEN {hello_tool_func(HelloName(t))} ELSE {}
      [] stage = "crawl" ->
            IF /\ contains(lower(t), CRAWL)
               /\ Len(CrawlSplit(t)) >= 2
               /\ strip(CrawlSplit(t)[2]) # <<>>
            THEN {web_crawl_tool_func(strip(CrawlSplit(t)[2]))} ELSE {}
      [] stage = "reason" ->
            {[tool |-> u[1].tool, key |-> u[1].key, arg |-> u[1].arg] :
                u \in EngineToolUses \ {<<>>}}
      [] OTHER -> {}

\* who runs at a stage: the router's own code, or the engine it started
Caller(stage) == IF stage = "reason" THEN "engine" ELSE "router"

\* the object a constructor returns is a new one
Fresh(n) == n + 1

\* (mutant) a connection closed on the successful exit only
Exit_onsuccess(open, id, ok) == IF ok THEN open \ {id} ELSE open

\* __exit__ / __aexit__ / the finally of asyncio.run(): the resource is
\* released whether the body returned or raised
Exit(open, id, ok) == open \ {id}

\* (mutant) a failed request issued a second time
AfterInvoke_retry(ok, issued) ==
    IF ~ok /\ issued < 2 THEN "connected" ELSE "invoked"

\* after `await client.call_tool(...)` the body of `async with` is left
AfterInvoke(ok, issued) == "invoked"

\* with concurrent.futures.ThreadPoolExecutor() as executor:
\*     future = executor.submit(...)
Submit ==
    /\ bpc = "idle"
    /\ \E req \in StageRequests(pc, text) :
        /\ bcall' = [by |-> Caller(pc), tool |-> req.tool, key |-> req.key,
                     arg |-> req.arg, executor |-> Fresh(made.executors),
                     loop |-> 0, conn |-> 0, issued |-> 0,
                     ok |-> FALSE, val |-> NoneV]
    /\ executors' = executors \cup {bcall'.executor}
    /\ made' = [made EXCEPT !.executors = @ + 1]
    /\ bpc' = "submitted"
    /\ UNCHANGED <<blog, loops, conns, invocations>>

\* asyncio.run(_call()) on the worker thread
RunLoop ==
    /\ bpc = "submitted"
    /\ bcall' = [bcall EXCEPT !.loop = Fresh(made.loops)]
    /\ loops' = loops \cup {bcall'.loop}
    /\ made' = [made EXCEPT !.loops = @ + 1]
    /\ bpc' = "running"
    /\ UNCHANGED <<blog, executors, conns, invocations>>

\* async with Client(MCP_SERVER_URL) as client: the connection opens, or
\* __aenter__ raises and there is nothing to close
Connect ==
    /\ bpc = "running"
    /\ \/ /\ bcall' = [bcall EXCEPT !.conn = Fresh(made.conns)]
          /\ conns' = conns \cup {bcall'.conn}
          /\ made' = [made EXCEPT !.conns = @ + 1]
          /\ bpc' = "connected"
       \/ /\ \E e \in ToolErrors :
                bcall' = [bcall EXCEPT !.ok = FALSE, !.val = e]
          /\ bpc' = "exited"
          /\ UNCHANGED <<conns, made>>
    /\ UNCHANGED <<blog, executors, loops, invocations>>

\* result = await client.call_tool(tool_name, payload)
Invoke ==
    /\ bpc = "connected"
    /\ invocations' = Append(invocations,
                             [conn |-> bcall.conn, tool |-> bcall.tool,
                              key |-> bcall.key, arg |-> bcall.arg])
    /\ \E o \in call_mcp_tool(bcall.tool, bcall) :
        /\ bcall' = [bcall EXCEPT !.ok = o.ok, !.val = o.val,
                                  !.issued = @ + 1]
        /\ bpc' = AfterInvoke(o.ok, bcall.issued + 1)
    /\ UNCHANGED <<blog, executors, loops, conns, made>>

\* the end of `async with`: Client.__aexit__
Disconnect ==
    /\ bpc = "invoked"
    /\ conns' = Exit(conns, bcall.conn, bcall.ok)
    /\ bpc' = "exited"
    /\ UNCHANGED <<bcall, blog, executors, loops, made, invocations>>

\* the end of asyncio.run(): the loop is closed
CloseLoop ==
    /\ bpc = "exited"
    /\ loops' = Exit(loops, bcall.loop, bcall.ok)
    /\ bpc' = "loop_closed"
    /\ UNCHANGED <<bcall, blog, executors, conns, made, invocations>>

\* future.result() and the end of `with`: the executor is shut down
Shutdown ==
    /\ bpc = "loop_closed"
    /\ executors' = Exit(executors, bcall.executor, bcall.ok)
    /\ bpc' = "returned"
    /\ UNCHANGED <<bcall, blog, loops, conns, made, invocations>>

\* the call has ended and its caller goes on
Ended ==
    /\ bpc = "returned"
    /\ blog' = Append(blog, bcall)
    /\ bcall' = NoCall
    /\ bpc' = "idle"
    /\ UNCHANGED <<executors, loops, conns, made, invocations>>

\* the entry of calls' that the step adds for the call that ended
Logged(by) ==
    /\ bcall.by = by
    /\ \E i \in DOMAIN calls' :
        /\ i > Len(calls)
        /\ calls'[i] = [by |-> by, tool |-> bcall.tool, key |-> bcall.key,
                        arg |-> bcall.arg, ok |-> bcall.ok, val |-> bcall.val]

\* a stage of the router whose tool call has ended
RouterResume ==
    /\ bpc = "returned"
    /\ (Finance \/ Hello \/ Crawl)
    /\ Logged("router")
    /\ Ended

\* a stage of the router that calls no tool
RouterSkip ==
    /\ bpc = "idle"
    /\ StageRequests(pc, text) = {}
    /\ (Finance \/ Hello \/ Crawl)
    /\ calls' = calls
    /\ UNCHANGED bridgeVars

\* the engine returns or raises after the tool call it made
EngineResume ==
    /\ bpc = "returned"
    /\ bcall.by = "engine"
    /\ Ended
    /\ ReasonWith(<<[by |-> "engine", tool |-> bcall.tool, key |-> bcall.key,
                     arg |-> bcall.arg, ok |-> bcall.ok, val |-> bcall.val]>>)

\* the engine returns or raises without a tool call
EngineAlone ==
    /\ bpc = "idle"
    /\ ReasonWith(<<>>)
    /\ UNCHANGED bridgeVars

BridgeInit ==
    /\ input \in BridgeInputs
    /\ text = <<>>
    /\ pc = "start"
    /\ output = <<>>
    /\ calls = <<>>
    /\ BridgeIdle
    /\ ClientIdle
    /\ NormIdle
    /\ CmdIdle

BridgeNext ==
    \/ AgentEnter /\ UNCHANGED <<bridgeVars, clientVars, normVars, cmdVars>>
    \/ Submit /\ UNCHANGED <<agentVars, clientVars, normVars, cmdVars>>
    \/ RunLoop /\ UNCHANGED <<agentVars, clientVars, normVars, cmdVars>>
    \/ Connect /\ UNCHANGED <<agentVars, clientVars, normVars, cmdVars>>
    \/ Invoke /\ UNCHANGED <<agentVars, clientVars, normVars, cmdVars>>
    \/ Disconnect /\ UNCHANGED <<agentVars, clientVars, normVars, cmdVars>>
    \/ CloseLoop /\ UNCHANGED <<agentVars, clientVars, normVars, cmdVars>>
    \/ Shutdown /\ UNCHANGED <<agentVars, clientVars, normVars, cmdVars>>
    \/ RouterResume /\ UNCHANGED <<clientVars, normVars, cmdVars>>
    \/ RouterSkip /\ UNCHANGED <<clientVars, normVars, cmdVars>>
    \/ EngineResume /\ UNCHANGED <<clientVars, normVars, cmdVars>>
    \/ EngineAlone /\ UNCHANGED <<clientVars, normVars, cmdVars>>

BridgeSpec == BridgeInit /\ [][BridgeNext]_vars

-----------------------------------------------------------------------------
(* Vocabulary of the bridge's properties.                                  *)

\* the calls of the bridge so far, the one in progress last
BridgeCalls == blog \o (IF bpc = "idle" THEN <<>> ELSE <<bcall>>)

\* the requests that reached the endpoint over a connection
Reached(conn) == {k \in DOMAIN invocations : invocations[k].conn = conn}

\* the ended calls that a caller made of a tool
EndedCalls(by, tool) ==
    {i \in DOMAIN blog : blog[i].by = by /\ blog[i].tool = tool}

\* C15: every call of the bridge has an executor, an event loop and a
\* connection of its own, no other is open while it runs, and once it has
\* returned or raised none of them is open.
C15_OwnContextReleased ==
    /\ bpc \in {"idle", "returned"} =>
          (executors = {} /\ loops = {} /\ conns = {})
    /\ bpc # "idle" =>
          /\ executors \subseteq {bcall.executor}
          /\ loops \subseteq {bcall.loop}
          /\ conns \subseteq {bcall.conn}
    /\ \A i, j \in DOMAIN BridgeCalls :
          i < j =>
            /\ BridgeCalls[i].executor # BridgeCalls[j].executor
            /\ BridgeCalls[j].loop # 0 => BridgeCalls[i].loop # BridgeCalls[j].loop
            /\ BridgeCalls[j].conn # 0 => BridgeCalls[i].conn # BridgeCalls[j].conn
    /\ \A k \in DOMAIN invocations :
          \E i \in DOMAIN BridgeCalls :
            /\ BridgeCalls[i].conn = invocations[k].conn
            /\ BridgeCalls[i].tool = invocations[k].tool

\* three calls have ended: one that could not connect, one that failed at
\* the endpoint, one that returned
C15_Witness ==
    /\ bpc = "idle"
    /\ Len(blog) = 3
    /\ ~blog[1].ok /\ blog[1].conn = 0
    /\ ~blog[2].ok /\ blog[2].conn # 0
    /\ blog[3].ok
    /\ made = [executors |-> 3, loops |-> 3, conns |-> 2]
    /\ executors = {} /\ loops = {} /\ conns = {}

\* what C18 says of errors and of the router, apart from the number of
\* requests of one call: a call that failed is an exception for its caller,
\* with no result, and in one run the router calls each tool and the engine
\* at most once
ErrorsPropagateOnce ==
    /\ \A i \in DOMAIN blog :
          /\ \E c \in DOMAIN calls :
                /\ calls[c].by = blog[i].by /\ calls[c].tool = blog[i].tool
                /\ calls[c].ok = blog[i].ok /\ calls[c].val = blog[i].val
          /\ ~blog[i].ok => blog[i].val \notin ToolResults
          /\ (~blog[i].ok /\ blog[i].by = "router") =>
                /\ \E n \in DOMAIN output :
                      output[n] = ErrorPrefix(blog[i].tool) \o str(blog[i].val)
    /\ \A tool \in RouterTools :
          /\ Cardinality(RouterCalls(tool)) <= 1
          /\ Cardinality(EndedCalls("router", tool)) <= 1
    /\ Cardinality(RouterCalls("lc_agent")) <= 1

(* C18 (as claimed): every call of the bridge issues exactly one request   *)
(* to the tool endpoint.  Refuted by a call whose connection cannot be     *)
(* opened: it raises without having issued any request.                    *)
C18_ExactlyOneInvocation ==
    /\ \A i \in DOMAIN blog :
          /\ blog[i].issued = 1
          /\ Cardinality(Reached(blog[i].conn)) = 1
    /\ ErrorsPropagateOnce

\* C18 (amended): a call of the bridge issues at most one request, exactly
\* one when its connection opened and none when it did not, and never a
\* second one; a failure is one exception for the caller, with no result;
\* the router calls each tool and the engine at most once in a run.
C18_AtMostOneInvocation ==
    /\ \A i \in DOMAIN BridgeCalls :
          /\ BridgeCalls[i].issued <= 1
          /\ Cardinality(Reached(BridgeCalls[i].conn)) = BridgeCalls[i].issued
    /\ \A i \in DOMAIN blog :
          blog[i].issued = 1 <=> blog[i].conn # 0
    /\ ErrorsPropagateOnce

\* the finance call could not connect, the greeting call failed at the
\* endpoint after its one request, and the run went on
C18_Witness ==
    /\ Len(blog) >= 2
    /\ blog[1].tool = "yahoo_finance_tool"
    /\ ~blog[1].ok /\ blog[1].issued = 0
    /\ blog[2].tool = "hello_tool"
    /\ ~blog[2].ok /\ blog[2].issued = 1
    /\ Len(invocations) = 1
    /\ pc = "crawl"

====
